---- MODULE Spec2Model ----
(***************************************************************************)
(* The TODO-table helpers of devops_deepagent.py (extract_todo_table_block, *)
(* parse_todo_table, render_todo_table), the two-phase run of the script   *)
(* that uses them, and the text operations of Python they are built from;  *)
(* and the tool calculate_metrics of advanced_examples.py.                 *)
(*                                                                         *)
(* A Python str is a sequence of one-character strings.  A Python dict is  *)
(* a sequence of <<key, value>> pairs with pairwise distinct keys, in      *)
(* insertion order.  None is a value that is no str.  A call either        *)
(* returns a value or raises: [raised |-> None, value |-> v] or            *)
(* [raised |-> <<exception name>>, value |-> None].  A Python number is    *)
(* the exact fraction <<numerator, denominator>> in lowest terms with a    *)
(* positive denominator; the rounding of float is not modelled.            *)
(***************************************************************************)
EXTENDS Integers, Sequences, FiniteSets, TLC

VARIABLES
    pc,                  \* position of the run / the helper called last
    text,                \* argument of extract_todo_table_block
    raw_todo_table,      \* what extract_todo_table_block returned
    table_md,            \* argument of parse_todo_table
    todos,               \* what parse_todo_table returned; argument of render
    status_override,     \* argument of render_todo_table (None: not supplied)
    todo_progress_table, \* what render_todo_table returned
    todos_after,         \* the list passed to render_todo_table, after the call
    reparsed,            \* parse_todo_table of the rendered table
    raised,              \* the exception that left the helper / the script
    reasoning_plan,      \* text of the planning phase
    final_answer,        \* text of the answer phase
    events,              \* model calls made and how each ended, oldest first
    stdout,              \* what the script printed, oldest first
    metric_type,         \* argument of calculate_metrics
    values,              \* argument of calculate_metrics
    result               \* what calculate_metrics returned

vars == <<pc, text, raw_todo_table, table_md, todos, status_override,
          todo_progress_table, todos_after, reparsed, raised,
          reasoning_plan, final_answer, events, stdout,
          metric_type, values, result>>

\* the variables of the finance tool
metrics_vars == <<metric_type, values, result>>

-----------------------------------------------------------------------------
(* Values *)

None == <<"None">>

Ret(v) == [raised |-> None, value |-> v]

Raise(e) == [raised |-> <<e>>, value |-> None]

-----------------------------------------------------------------------------
(* Python str operations used by the helpers *)

\* str.isspace() of one character, as str.strip() with no argument uses it
WhiteSpace == {" ", "\t", "\n", "\r", "\f"}

\* the line boundaries of str.splitlines()
LineBreaks == {"\n", "\r", "\f"}

RECURSIVE lstrip(_, _)
lstrip(s, chars) ==
    IF s # <<>> /\ Head(s) \in chars THEN lstrip(Tail(s), chars) ELSE s

RECURSIVE rstrip(_, _)
rstrip(s, chars) ==
    IF s # <<>> /\ s[Len(s)] \in chars
    THEN rstrip(SubSeq(s, 1, Len(s) - 1), chars)
    ELSE s

\* s.strip() is strip(s, WhiteSpace); s.strip("|") is strip(s, {"|"})
strip(s, chars) == rstrip(lstrip(s, chars), chars)

\* s.startswith(prefix)
startswith(s, prefix) ==
    Len(s) >= Len(prefix) /\ SubSeq(s, 1, Len(prefix)) = prefix

\* index of the first element of s that is in chars, 0 when there is none
RECURSIVE find_first(_, _, _)
find_first(s, chars, i) ==
    IF i > Len(s) THEN 0
    ELSE IF s[i] \in chars THEN i
    ELSE find_first(s, chars, i + 1)

\* s.split(sep) for a one-character sep: always at least one field
RECURSIVE split(_, _)
split(s, sep) ==
    LET i == find_first(s, {sep}, 1)
    IN  IF i = 0 THEN <<s>>
        ELSE <<SubSeq(s, 1, i - 1)>> \o split(SubSeq(s, i + 1, Len(s)), sep)

\* s.splitlines(): no line for the empty string, none after a final break,
\* "\r\n" is one break
RECURSIVE splitlines(_)
splitlines(s) ==
    IF s = <<>> THEN <<>>
    ELSE LET i == find_first(s, LineBreaks, 1)
             skip == IF s[i] = "\r" /\ i < Len(s) /\ s[i + 1] = "\n"
                     THEN 2 ELSE 1
         IN  IF i = 0 THEN <<s>>
             ELSE <<SubSeq(s, 1, i - 1)>>
                      \o splitlines(SubSeq(s, i + skip, Len(s)))

\* sep.join(parts): TypeError when a part is no str
RECURSIVE join_strs(_, _)
join_strs(sep, parts) ==
    IF parts = <<>> THEN <<>>
    ELSE IF Len(parts) = 1 THEN parts[1]
    ELSE parts[1] \o sep \o join_strs(sep, Tail(parts))

join(sep, parts) ==
    IF \E i \in DOMAIN parts : parts[i] = None
    THEN Raise("TypeError")
    ELSE Ret(join_strs(sep, parts))

\* c.lower() of one character (the cased letters of the modelled texts)
lower_char(c) ==
    CASE c = "S" -> "s"
      [] c = "T" -> "t"
      [] c = "A" -> "a"
      [] c = "U" -> "u"
      [] c = "O" -> "o"
      [] c = "D" -> "d"
      [] c = "L" -> "l"
      [] OTHER -> c

\* s.lower()
lower(s) == [i \in DOMAIN s |-> lower_char(s[i])]

\* [c.strip() for c in xs]
strip_each(xs) == [i \in DOMAIN xs |-> strip(xs[i], WhiteSpace)]

\* the lines stripped, the blank ones kept
stripped_lines(xs) == [i \in DOMAIN xs |-> strip(xs[i], WhiteSpace)]

\* [line.strip() for line in xs if line.strip()]
RECURSIVE stripped_non_blank(_)
stripped_non_blank(xs) ==
    IF xs = <<>> THEN <<>>
    ELSE IF strip(Head(xs), WhiteSpace) # <<>>
         THEN <<strip(Head(xs), WhiteSpace)>> \o stripped_non_blank(Tail(xs))
         ELSE stripped_non_blank(Tail(xs))

-----------------------------------------------------------------------------
(* Python dict operations used by the helpers *)

\* position of key k in dict d, 0 when absent
RECURSIVE key_index(_, _, _)
key_index(d, k, i) ==
    IF i > Len(d) THEN 0
    ELSE IF d[i][1] = k THEN i
    ELSE key_index(d, k, i + 1)

\* d[k] = v: a present key keeps its position and takes the new value
dict_set(d, k, v) ==
    LET i == key_index(d, k, 1)
    IN  IF i = 0 THEN Append(d, <<k, v>>)
        ELSE [j \in DOMAIN d |-> IF j = i THEN <<k, v>> ELSE d[j]]

\* d.get(k, default)
dict_get(d, k, default) ==
    LET i == key_index(d, k, 1)
    IN  IF i = 0 THEN default ELSE d[i][2]

\* list(d.keys())
keys(d) == [i \in DOMAIN d |-> d[i][1]]

-----------------------------------------------------------------------------
(* extract_todo_table_block *)

TODO_MARKER == <<"#", "#", " ", "T", "O", "D", "O", " ", "L", "i", "s", "t">>

NEXT_MARKER == <<"#", "#", " ">>

\* (.*?)(## |\Z) tried from position j on, under re.DOTALL: group 1 ends
\* before the first j at which "## " starts or the text ends
RECURSIVE lazy_end(_, _)
lazy_end(s, j) ==
    IF j > Len(s) \/ startswith(SubSeq(s, j, Len(s)), NEXT_MARKER) THEN j
    ELSE lazy_end(s, j + 1)

\* re.search(r"## TODO List(.*?)(## |\Z)", s, flags=re.DOTALL) from position
\* i on: None, or <<start of group 1, group 1>> of the leftmost match
RECURSIVE re_search(_, _)
re_search(s, i) ==
    IF i > Len(s) THEN None
    ELSE IF startswith(SubSeq(s, i, Len(s)), TODO_MARKER)
         THEN LET b == i + Len(TODO_MARKER)
              IN  <<b, SubSeq(s, b, lazy_end(s, b) - 1)>>
         ELSE re_search(s, i + 1)

\* if not m
not_found(m) == m = None

\* m.group(1)
group(m) == IF m = None THEN Raise("AttributeError") ELSE Ret(m[2])

\* a filter that tests the line as it stands, blanks in front included
RECURSIVE table_lines_unstripped(_)
table_lines_unstripped(lines) ==
    IF lines = <<>> THEN <<>>
    ELSE IF startswith(Head(lines), <<"|">>)
         THEN <<Head(lines)>> \o table_lines_unstripped(Tail(lines))
         ELSE table_lines_unstripped(Tail(lines))

\* [line for line in lines if line.strip().startswith("|")]
RECURSIVE table_lines(_)
table_lines(lines) ==
    IF lines = <<>> THEN <<>>
    ELSE IF startswith(strip(Head(lines), WhiteSpace), <<"|">>)
         THEN <<Head(lines)>> \o table_lines(Tail(lines))
         ELSE table_lines(Tail(lines))

extract_todo_table_block(t) ==
    LET m == re_search(t, 1)
    IN  IF not_found(m) THEN Ret(<<>>)
        ELSE LET section == group(m)
             IN  IF section.raised # None THEN section
                 ELSE join(<<"\n">>,
                           table_lines(splitlines(strip(section.value,
                                                        WhiteSpace))))

-----------------------------------------------------------------------------
(* parse_todo_table *)

\* [c.strip() for c in row.strip("|").split("|")]
cells_of(row) == strip_each(split(strip(row, {"|"}), "|"))

\* a parse without the guard for short tables
never_too_few(rows) == FALSE

\* if len(rows) < 3
too_few_rows(rows) == Len(rows) < 3

\* a slice that starts one line early: rows[1:]
data_rows_from_separator(rows) == SubSeq(rows, 2, Len(rows))

\* rows[2:]
data_rows_of(rows) == SubSeq(rows, 3, Len(rows))

\* a check that only drops the shorter rows
width_too_short(cells, header_cells) == Len(cells) < Len(header_cells)

\* if len(cells) != len(header_cells)
width_mismatch(cells, header_cells) == Len(cells) # Len(header_cells)

\* {header_cells[i]: cells[i] for i in range(len(header_cells))} from index
\* i on, added to d: cells[i] of a shorter row is an IndexError
RECURSIVE item(_, _, _, _)
item(header_cells, cells, i, d) ==
    IF i > Len(header_cells) THEN Ret(d)
    ELSE IF i > Len(cells) THEN Raise("IndexError")
    ELSE item(header_cells, cells, i + 1,
              dict_set(d, header_cells[i], cells[i]))

\* the loop over data_rows, acc the todos appended so far
RECURSIVE parse_rows(_, _, _)
parse_rows(data_rows, header_cells, acc) ==
    IF data_rows = <<>> THEN Ret(acc)
    ELSE LET cells == cells_of(Head(data_rows))
         IN  IF width_mismatch(cells, header_cells)
             THEN parse_rows(Tail(data_rows), header_cells, acc)
             ELSE LET it == item(header_cells, cells, 1, <<>>)
                  IN  IF it.raised # None THEN it
                      ELSE parse_rows(Tail(data_rows), header_cells,
                                      Append(acc, it.value))

parse_todo_table(md) ==
    LET rows == stripped_non_blank(splitlines(md))
    IN  IF too_few_rows(rows) THEN Ret(<<>>)
        ELSE IF rows = <<>> THEN Raise("IndexError")
        ELSE parse_rows(data_rows_of(rows), cells_of(rows[1]), <<>>)

-----------------------------------------------------------------------------
(* render_todo_table *)

NO_TODOS == <<"*", "(", "N", "o", " ", "T", "O", "D", "O", "s", " ",
              "f", "o", "u", "n", "d", ")", "*">>

STATUS == <<"s", "t", "a", "t", "u", "s">>

\* a row written without the padding blanks: "|" + "|".join(cells) + "|"
table_row_unpadded(cells) ==
    LET body == join(<<"|">>, cells)
    IN  IF body.raised # None THEN body
        ELSE Ret(<<"|">> \o body.value \o <<"|">>)

\* "| " + " | ".join(cells) + " |"
table_row(cells) ==
    LET body == join(<<" ", "|", " ">>, cells)
    IN  IF body.raised # None THEN body
        ELSE Ret(<<"|", " ">> \o body.value \o <<" ", "|">>)

\* "---" for _ in headers
dashes(headers) == [i \in DOMAIN headers |-> <<"-", "-", "-">>]

\* a comparison that forgets h.lower()
row_cell_case_sensitive(todo, h, override) ==
    IF h = <<"s", "t", "a", "t", "u", "s">> /\ override # None THEN override
    ELSE dict_get(todo, h, <<>>)

\* the cell render_todo_table appends to row_cells for column h of todo
row_cell(todo, h, override) ==
    IF lower(h) = STATUS /\ override # None THEN override
    ELSE dict_get(todo, h, <<>>)

\* a loop over the keys of the row itself: for h in todo
row_cells_of_own_keys(todo, headers, override) ==
    [i \in DOMAIN todo |->
        IF lower(todo[i][1]) = <<"s", "t", "a", "t", "u", "s">>
           /\ override # None
        THEN override
        ELSE todo[i][2]]

\* row_cells of one todo
row_cells(todo, headers, override) ==
    [i \in DOMAIN headers |-> row_cell(todo, headers[i], override)]

\* a loop body that stores the override in the row: todo[h] = status_override
todo_overwritten(todo, headers, override) ==
    [i \in DOMAIN todo |->
        IF lower(todo[i][1]) = <<"s", "t", "a", "t", "u", "s">>
           /\ override # None
        THEN <<todo[i][1], override>>
        ELSE todo[i]]

\* the dict todo after the loop body has run for it: the body only reads it
todo_after(todo, headers, override) == todo

\* a render without the guard for the empty list
never_empty(ts) == FALSE

\* if not todos
no_todos(ts) == ts = <<>>

\* data_lines, from the k-th todo on: the first failing join ends the call
RECURSIVE data_lines(_, _, _, _)
data_lines(ts, headers, override, k) ==
    IF k > Len(ts) THEN Ret(<<>>)
    ELSE LET line == table_row(row_cells(ts[k], headers, override))
             rest == data_lines(ts, headers, override, k + 1)
         IN  IF line.raised # None THEN line
             ELSE IF rest.raised # None THEN rest
             ELSE Ret(<<line.value>> \o rest.value)

\* the returned text, and the list passed in as the call leaves it
render_todo_table(ts, override) ==
    IF no_todos(ts) THEN [raised |-> None, value |-> NO_TODOS, todos |-> ts]
    ELSE IF ts = <<>>
         THEN [raised |-> <<"IndexError">>, value |-> None, todos |-> ts]
    ELSE LET headers == keys(ts[1])
             header_row == table_row(headers)
             sep_row == table_row(dashes(headers))
             lines == data_lines(ts, headers, override, 1)
             after == [k \in DOMAIN ts |-> todo_after(ts[k], headers, override)]
             out == IF lines.raised # None THEN lines
                    ELSE join(<<"\n">>,
                              <<header_row.value, sep_row.value>> \o lines.value)
         IN  [raised |-> out.raised, value |-> out.value, todos |-> after]

-----------------------------------------------------------------------------
(* Inputs of the helper calls *)

\* most lines of a text
MaxLines == 4

\* most rows of a list handed to render_todo_table directly
MaxRows == 2

NL == <<"\n">>

\* lines a table text is made of
TableLines ==
    { <<"|", " ", "a", " ", "|", " ", "S", "t", "a", "t", "u", "s", " ", "|">>,
      <<"|", " ", "-", "-", "-", " ", "|", " ", "-", "-", "-", " ", "|">>,
      <<"|", " ", "x", " ", "|", " ", " ", "|">>,
      <<"|", "a", "|", "a", "|">>,
      <<" ", "|", " ", "x", " ", "|", " ", "t", "o", "d", "o">>,
      <<"|">>,
      <<" ">> }

\* lines a planning text is made of
PlanLines ==
    { TODO_MARKER,
      <<"#", "#", " ", "N">>,
      <<"#", "#", "#", " ", "S">>,
      <<" ", "|", " ", "a", " ", "|">>,
      <<"-", " ", "g">>,
      <<>> }

\* the sequences of at most n elements of S
RECURSIVE SeqsUpTo(_, _)
SeqsUpTo(S, n) ==
    IF n = 0 THEN {<<>>}
    ELSE LET shorter == SeqsUpTo(S, n - 1)
         IN  shorter \cup {Append(q, e) : q \in shorter, e \in S}

\* the texts of at most MaxLines lines of S, lines joined by a line feed
TextsOf(S) == {join_strs(NL, ls) : ls \in SeqsUpTo(S, MaxLines)}

TableTexts == TextsOf(TableLines)

PlanTexts == TextsOf(PlanLines)

DONE == <<"d", "o", "n", "e">>

\* override strings: plain, empty, untrimmed, with a pipe, with a line feed
Overrides ==
    { DONE, <<>>, <<"d", "o", "n", "e", " ">>, <<"a", " ", "|", " ", "b">>,
      <<"a", "\n", "b">> }

\* rows handed to render_todo_table directly: dicts of trimmed cells
Rows ==
    { << <<<<"S", "t", "a", "t", "u", "s">>, <<"t", "o", "d", "o">>>>,
         <<<<"a">>, <<"x">>>> >>,
      << <<<<"a">>, <<>>>>,
         <<<<"S", "T", "A", "T", "U", "S">>, <<"x">>>> >>,
      << <<<<"s", "t", "a", "t", "u", "s">>, <<>>>> >>,
      << <<<<"a">>, <<"x">>>>, <<<<"b">>, <<"y">>>> >>,
      << <<<<"b">>, <<"y">>>> >>,
      << <<<<"s", "t", "a", "t">>, <<"x">>>>, <<<<>>, <<"y">>>> >> }

RowLists == SeqsUpTo(Rows, MaxRows)

-----------------------------------------------------------------------------
(* Calls of the helpers, one chain of calls per behaviour *)

InitTable ==
    /\ pc = "idle"
    /\ text = None
    /\ raw_todo_table = None
    /\ table_md = None
    /\ todos = None
    /\ status_override = None
    /\ todo_progress_table = None
    /\ todos_after = None
    /\ reparsed = None
    /\ raised = None
    /\ reasoning_plan = None
    /\ final_answer = None
    /\ events = <<>>
    /\ stdout = <<>>
    /\ metric_type = None
    /\ values = None
    /\ result = None

\* raw_todo_table = extract_todo_table_block(t)
DoExtract(t) ==
    LET r == extract_todo_table_block(t)
    IN  /\ text' = t
        /\ raw_todo_table' = r.value
        /\ raised' = r.raised

\* todos = parse_todo_table(md)
DoParse(md) ==
    LET r == parse_todo_table(md)
    IN  /\ table_md' = md
        /\ todos' = r.value
        /\ raised' = r.raised

\* todo_progress_table = render_todo_table(ts, status_override=ov)
DoRender(ts, ov) ==
    LET r == render_todo_table(ts, ov)
    IN  /\ status_override' = ov
        /\ todo_progress_table' = r.value
        /\ todos_after' = r.todos
        /\ raised' = r.raised

CallExtract ==
    /\ pc = "idle"
    /\ \E t \in PlanTexts : DoExtract(t)
    /\ pc' = "extracted"
    /\ UNCHANGED <<metrics_vars, table_md, todos, status_override, todo_progress_table,
                   todos_after, reparsed, reasoning_plan, final_answer,
                   events, stdout>>

CallParse ==
    /\ pc = "idle"
    /\ \E md \in TableTexts : DoParse(md)
    /\ pc' = "parsed"
    /\ UNCHANGED <<metrics_vars, text, raw_todo_table, status_override, todo_progress_table,
                   todos_after, reparsed, reasoning_plan, final_answer,
                   events, stdout>>

ParseExtracted ==
    /\ pc = "extracted"
    /\ raised = None
    /\ DoParse(raw_todo_table)
    /\ pc' = "parsed"
    /\ UNCHANGED <<metrics_vars, text, raw_todo_table, status_override, todo_progress_table,
                   todos_after, reparsed, reasoning_plan, final_answer,
                   events, stdout>>

CallRender ==
    /\ pc = "idle"
    /\ \E ts \in RowLists, ov \in Overrides \cup {None} :
           /\ todos' = ts
           /\ DoRender(ts, ov)
    /\ pc' = "rendered"
    /\ UNCHANGED <<metrics_vars, text, raw_todo_table, table_md, reparsed, reasoning_plan,
                   final_answer, events, stdout>>

RenderParsed ==
    /\ pc = "parsed"
    /\ raised = None
    /\ \E ov \in {None, DONE} : DoRender(todos, ov)
    /\ pc' = "rendered"
    /\ UNCHANGED <<metrics_vars, text, raw_todo_table, table_md, todos, reparsed,
                   reasoning_plan, final_answer, events, stdout>>

Reparse ==
    /\ pc = "rendered"
    /\ raised = None
    /\ LET r == parse_todo_table(todo_progress_table)
       IN  /\ reparsed' = r.value
           /\ raised' = r.raised
    /\ pc' = "reparsed"
    /\ UNCHANGED <<metrics_vars, text, raw_todo_table, table_md, todos, status_override,
                   todo_progress_table, todos_after, reasoning_plan,
                   final_answer, events, stdout>>

NextTable ==
    \/ CallExtract
    \/ CallParse
    \/ ParseExtracted
    \/ CallRender
    \/ RenderParsed
    \/ Reparse

SpecTable == InitTable /\ [][NextTable]_vars

-----------------------------------------------------------------------------
(* One run of the script: two model calls around the progress table *)

\* the text of user_question, which no step of the run inspects
USER_QUESTION == <<"\n", "Q", "\n">>

\* a prompt built from the re-rendered table in place of the plan
combined_prompt_of_table(plan) ==
    <<"\n", "U", "s", "e", "r", " ", "q", "u", "e", "s", "t", "i", "o", "n",
      ":", "\n">>
    \o USER_QUESTION
    \o <<"\n", "\n", "R", "e", "a", "s", "o", "n", "i", "n", "g", " ", "P",
         "l", "a", "n", " ", "a", "n", "d", " ", "T", "O", "D", "O", "s", " ",
         "f", "r", "o", "m", " ", "P", "h", "a", "s", "e", " ", "1", ":",
         "\n">>
    \o todo_progress_table
    \o <<"\n">>

\* the f-string combined_prompt
combined_prompt(plan) ==
    <<"\n", "U", "s", "e", "r", " ", "q", "u", "e", "s", "t", "i", "o", "n",
      ":", "\n">>
    \o USER_QUESTION
    \o <<"\n", "\n", "R", "e", "a", "s", "o", "n", "i", "n", "g", " ", "P",
         "l", "a", "n", " ", "a", "n", "d", " ", "T", "O", "D", "O", "s", " ",
         "f", "r", "o", "m", " ", "P", "h", "a", "s", "e", " ", "1", ":",
         "\n">>
    \o plan
    \o <<"\n">>

\* the text of one element of a list content: ch["text"] of a dict that has
\* it, str(ch) of anything else (given here as that string)
part_of(ch) == ch[2]

\* get_text_from_llm after llm.invoke returned: a str content as it is, a
\* list content as its parts joined by line feeds
text_of(content) ==
    IF content[1] = "str" THEN content[2]
    ELSE join_strs(NL, [i \in DOMAIN content[2] |-> part_of(content[2][i])])

\* a call that is made again after it failed
retry_call(phase) == IF phase = "planning" THEN "start" ELSE "answer"

\* where the run goes when llm.invoke raises: nothing catches the
\* exception, it leaves get_text_from_llm and the script
on_llm_error(phase) == "failed"

\* where the run goes after a helper call that left exception r
after_call(r, next) == IF r # None THEN "failed" ELSE next

\* what llm.invoke may raise
LlmErrors == {"TimeoutError", "ServerError"}

TABLE_HEADER ==
    <<"|", " ", "a", " ", "|", " ", "S", "t", "a", "t", "u", "s", " ", "|">>

TABLE_SEPARATOR ==
    <<"|", " ", "-", "-", "-", " ", "|", " ", "-", "-", "-", " ", "|">>

TABLE_ROW == <<"|", " ", "x", " ", "|", " ", "t", "o", "d", "o", " ", "|">>

NARROW_ROW == <<"|", " ", "x", " ", "|">>

NEXT_HEADING == <<"#", "#", " ", "N">>

SUB_HEADING == <<"#", "#", "#", " ", "S">>

PROSE == <<"-", " ", "g">>

\* planning texts the model may answer with
SamplePlans ==
    { <<>>,
      join_strs(NL, <<PROSE, TABLE_HEADER, TABLE_SEPARATOR, TABLE_ROW>>),
      join_strs(NL, <<TODO_MARKER, PROSE>>),
      join_strs(NL, <<TODO_MARKER, PROSE, TABLE_HEADER, TABLE_SEPARATOR,
                      TABLE_ROW, TABLE_ROW, <<>>, NEXT_HEADING, TABLE_ROW>>),
      join_strs(NL, <<TABLE_ROW, TODO_MARKER, TABLE_HEADER, TABLE_SEPARATOR,
                      NARROW_ROW, TABLE_ROW>>),
      join_strs(NL, <<TODO_MARKER, SUB_HEADING, TABLE_HEADER, TABLE_SEPARATOR,
                      TABLE_ROW>>),
      join_strs(NL, <<TODO_MARKER, TABLE_HEADER, TABLE_SEPARATOR>>),
      join_strs(<<"\r", "\n">>, <<TODO_MARKER, TABLE_HEADER, TABLE_SEPARATOR,
                                  TABLE_ROW, NEXT_HEADING>>),
      join_strs(NL, <<TODO_MARKER, TABLE_HEADER, TABLE_SEPARATOR, TABLE_ROW,
                      TODO_MARKER, TABLE_ROW>>) }

\* contents of the planning response: a str, or a list of parts
PlanContents ==
    {<<"str", t>> : t \in SamplePlans}
    \cup { <<"list", << <<"text", TODO_MARKER>>, <<"text", TABLE_HEADER>>,
                        <<"other", TABLE_SEPARATOR>>, <<"text", TABLE_ROW>> >> >>,
           <<"list", <<>> >> }

\* contents of the answer response
AnswerContents ==
    { <<"str", <<"o", "k">>>>,
      <<"list", << <<"text", <<"o">>>>, <<"other", <<"k">>>> >> >> }

Init ==
    /\ pc = "start"
    /\ text = None
    /\ raw_todo_table = None
    /\ table_md = None
    /\ todos = None
    /\ status_override = None
    /\ todo_progress_table = None
    /\ todos_after = None
    /\ reparsed = None
    /\ raised = None
    /\ reasoning_plan = None
    /\ final_answer = None
    /\ events = <<>>
    /\ stdout = <<>>
    /\ metric_type = None
    /\ values = None
    /\ result = None

\* get_text_from_llm(planning_messages) reaches llm.invoke
PlanningInvoke ==
    /\ pc = "start"
    /\ events' = Append(events, <<"invoke", "planning", USER_QUESTION>>)
    /\ pc' = "planning_call"
    /\ UNCHANGED <<metrics_vars, text, raw_todo_table, table_md, todos, status_override,
                   todo_progress_table, todos_after, reparsed, raised,
                   reasoning_plan, final_answer, stdout>>

PlanningReturn ==
    /\ pc = "planning_call"
    /\ \E c \in PlanContents :
           /\ reasoning_plan' = text_of(c)
           /\ events' = Append(events, <<"return", "planning", text_of(c)>>)
    /\ pc' = "print_plan"
    /\ UNCHANGED <<metrics_vars, text, raw_todo_table, table_md, todos, status_override,
                   todo_progress_table, todos_after, reparsed, raised,
                   final_answer, stdout>>

PlanningRaise ==
    /\ pc = "planning_call"
    /\ \E e \in LlmErrors :
           /\ raised' = <<e>>
           /\ events' = Append(events, <<"raise", "planning", <<e>>>>)
    /\ pc' = on_llm_error("planning")
    /\ UNCHANGED <<metrics_vars, text, raw_todo_table, table_md, todos, status_override,
                   todo_progress_table, todos_after, reparsed,
                   reasoning_plan, final_answer, stdout>>

\* the three prints of phase 1
PrintPlan ==
    /\ pc = "print_plan"
    /\ stdout' = stdout \o << <<"PHASE 1 banner", <<>>>>,
                              <<"reasoning_plan", reasoning_plan>>,
                              <<"END PLAN banner", <<>>>> >>
    /\ pc' = "extract"
    /\ UNCHANGED <<metrics_vars, text, raw_todo_table, table_md, todos, status_override,
                   todo_progress_table, todos_after, reparsed, raised,
                   reasoning_plan, final_answer, events>>

ExtractTable ==
    /\ pc = "extract"
    /\ DoExtract(reasoning_plan)
    /\ pc' = after_call(raised', "parse")
    /\ UNCHANGED <<metrics_vars, table_md, todos, status_override, todo_progress_table,
                   todos_after, reparsed, reasoning_plan, final_answer,
                   events, stdout>>

ParseTable ==
    /\ pc = "parse"
    /\ DoParse(raw_todo_table)
    /\ pc' = after_call(raised', "render")
    /\ UNCHANGED <<metrics_vars, text, raw_todo_table, status_override, todo_progress_table,
                   todos_after, reparsed, reasoning_plan, final_answer,
                   events, stdout>>

RenderProgress ==
    /\ pc = "render"
    /\ DoRender(todos, DONE)
    /\ pc' = after_call(raised', "answer")
    /\ UNCHANGED <<metrics_vars, text, raw_todo_table, table_md, todos, reparsed,
                   reasoning_plan, final_answer, events, stdout>>

\* get_text_from_llm(answer_messages) reaches llm.invoke
AnswerInvoke ==
    /\ pc = "answer"
    /\ events' = Append(events,
                        <<"invoke", "answer", combined_prompt(reasoning_plan)>>)
    /\ pc' = "answer_call"
    /\ UNCHANGED <<metrics_vars, text, raw_todo_table, table_md, todos, status_override,
                   todo_progress_table, todos_after, reparsed, raised,
                   reasoning_plan, final_answer, stdout>>

AnswerReturn ==
    /\ pc = "answer_call"
    /\ \E c \in AnswerContents :
           /\ final_answer' = text_of(c)
           /\ events' = Append(events, <<"return", "answer", text_of(c)>>)
    /\ pc' = "print_answer"
    /\ UNCHANGED <<metrics_vars, text, raw_todo_table, table_md, todos, status_override,
                   todo_progress_table, todos_after, reparsed, raised,
                   reasoning_plan, stdout>>

AnswerRaise ==
    /\ pc = "answer_call"
    /\ \E e \in LlmErrors :
           /\ raised' = <<e>>
           /\ events' = Append(events, <<"raise", "answer", <<e>>>>)
    /\ pc' = on_llm_error("answer")
    /\ UNCHANGED <<metrics_vars, text, raw_todo_table, table_md, todos, status_override,
                   todo_progress_table, todos_after, reparsed,
                   reasoning_plan, final_answer, stdout>>

\* the six prints of phase 2
PrintAnswer ==
    /\ pc = "print_answer"
    /\ stdout' = stdout \o << <<"PHASE 2 banner", <<>>>>,
                              <<"TODO Progress heading", <<>>>>,
                              <<"todo_progress_table", todo_progress_table>>,
                              <<"blank lines", <<>>>>,
                              <<"final_answer", final_answer>>,
                              <<"END ANSWER banner", <<>>>> >>
    /\ pc' = "done"
    /\ UNCHANGED <<metrics_vars, text, raw_todo_table, table_md, todos, status_override,
                   todo_progress_table, todos_after, reparsed, raised,
                   reasoning_plan, final_answer, events>>

Next ==
    \/ PlanningInvoke
    \/ PlanningReturn
    \/ PlanningRaise
    \/ PrintPlan
    \/ ExtractTable
    \/ ParseTable
    \/ RenderProgress
    \/ AnswerInvoke
    \/ AnswerReturn
    \/ AnswerRaise
    \/ PrintAnswer

Spec == Init /\ [][Next]_vars

-----------------------------------------------------------------------------
(* calculate_metrics *)

abs(n) == IF n < 0 THEN 0 - n ELSE n

RECURSIVE gcd(_, _)
gcd(a, b) == IF b = 0 THEN a ELSE gcd(b, a % b)

\* the number a / b, b not zero, in lowest terms
fraction(a, b) ==
    LET g == gcd(abs(a), abs(b))
        sign == IF b < 0 THEN 0 - 1 ELSE 1
    IN  <<(sign * a) \div g, abs(b) \div g>>

\* a / b on int arguments
truediv(a, b) ==
    IF b = 0 THEN Raise("ZeroDivisionError") ELSE Ret(fraction(a, b))

\* x * n, x a number and n an int
times(x, n) == fraction(x[1] * n, x[2])

\* sum(values)
RECURSIVE sum(_)
sum(vs) == IF vs = <<>> THEN 0 ELSE Head(vs) + sum(Tail(vs))

RESULT == <<"r", "e", "s", "u", "l", "t">>

AVERAGE == <<"a", "v", "e", "r", "a", "g", "e">>

GROWTH == <<"g", "r", "o", "w", "t", "h">>

\* {"result": v}
result_of(v) == <<<<RESULT, v>>>>

calculate_metrics(mt, vs) ==
    IF mt = AVERAGE
    THEN IF vs # <<>>
         THEN LET q == truediv(sum(vs), Len(vs))
              IN  IF q.raised # None THEN q ELSE Ret(result_of(q.value))
         ELSE Ret(result_of(<<0, 1>>))
    ELSE IF mt = GROWTH /\ Len(vs) >= 2
    THEN LET q == truediv(vs[Len(vs)] - vs[1], vs[1])
         IN  IF q.raised # None THEN q
             ELSE Ret(result_of(times(q.value, 100)))
    ELSE Ret(result_of(None))

\* longest list of values handed to the tool
MaxValues == 3

\* largest magnitude of a value
MaxValue == 2

Numbers == (0 - MaxValue)..MaxValue

ValueLists == SeqsUpTo(Numbers, MaxValues)

\* the two metric types the tool knows and two it does not
MetricTypes == {AVERAGE, GROWTH, <<"A", "v", "e", "r", "a", "g", "e">>,
                <<"s", "u", "m">>}

InitMetrics == InitTable

\* result = calculate_metrics(mt, vs)
CallMetrics ==
    /\ pc = "idle"
    /\ \E mt \in MetricTypes, vs \in ValueLists :
           LET r == calculate_metrics(mt, vs)
           IN  /\ metric_type' = mt
               /\ values' = vs
               /\ result' = r.value
               /\ raised' = r.raised
    /\ pc' = "calculated"
    /\ UNCHANGED <<text, raw_todo_table, table_md, todos, status_override,
                   todo_progress_table, todos_after, reparsed,
                   reasoning_plan, final_answer, events, stdout>>

NextMetrics == CallMetrics

SpecMetrics == InitMetrics /\ [][NextMetrics]_vars

-----------------------------------------------------------------------------
(* What the claims speak of, read off the texts themselves *)

IsBlank(line) == \A i \in DOMAIN line : line[i] \in WhiteSpace

\* the trimmed pipe-delimited cells of a table line
Cells(line) == strip_each(split(strip(strip(line, WhiteSpace), {"|"}), "|"))

RECURSIVE NonBlankLines(_)
NonBlankLines(ls) ==
    IF ls = <<>> THEN <<>>
    ELSE IF IsBlank(Head(ls)) THEN NonBlankLines(Tail(ls))
    ELSE <<Head(ls)>> \o NonBlankLines(Tail(ls))

\* the table lines of a table text: its non-blank lines
TableOf(md) == NonBlankLines(splitlines(md))

HeaderOf(md) == Cells(TableOf(md)[1])

DataOf(md) == SubSeq(TableOf(md), 3, Len(TableOf(md)))

\* header line, separator line and data lines, none blank, every data line
\* as wide as the header
WellFormed(md) ==
    /\ md # None
    /\ Len(splitlines(md)) >= 2
    /\ \A i \in DOMAIN splitlines(md) : ~IsBlank(splitlines(md)[i])
    /\ \A i \in DOMAIN DataOf(md) :
           Len(Cells(DataOf(md)[i])) = Len(HeaderOf(md))

Distinct(cs) == \A i, j \in DOMAIN cs : cs[i] = cs[j] => i = j

\* the row that maps the j-th header cell to the j-th cell of the line
PlainRow(H, line) == [j \in DOMAIN H |-> <<H[j], Cells(line)[j]>>]

\* the header cells without their repetitions, in order of first occurrence
RECURSIVE FirstOccurrences(_, _)
FirstOccurrences(H, j) ==
    IF j > Len(H) THEN <<>>
    ELSE IF \E i \in 1..(j - 1) : H[i] = H[j] THEN FirstOccurrences(H, j + 1)
    ELSE <<H[j]>> \o FirstOccurrences(H, j + 1)

LastIndex(H, k) == CHOOSE j \in DOMAIN H :
                      H[j] = k /\ \A i \in DOMAIN H : H[i] = k => i <= j

\* the row over the distinct header cells, each mapped to the cell under
\* its last occurrence in the header
MappingRow(H, line) ==
    LET ks == FirstOccurrences(H, 1)
    IN  [n \in DOMAIN ks |-> <<ks[n], Cells(line)[LastIndex(H, ks[n])]>>]

-----------------------------------------------------------------------------
(* C1 *)

\* C1 as stated: a well-formed table text of header H and N data lines
\* parses to exactly N rows, in input order, row i mapping the j-th cell of H
\* to the trimmed j-th cell of data line i, the keys being H's cells in order.
C1_AsStated ==
    (pc = "parsed" /\ WellFormed(table_md)) =>
        /\ raised = None
        /\ todos = [i \in DOMAIN DataOf(table_md) |->
                        PlainRow(HeaderOf(table_md), DataOf(table_md)[i])]

\* C1 amended: the rows are N, in input order; the keys of every row are the
\* distinct cells of H in order of first occurrence and each key maps to the
\* trimmed cell under its last occurrence in H; so when the cells of H are
\* pairwise distinct, row i maps the j-th cell of H to the j-th cell of line i.
C1_WellFormedRows ==
    (pc = "parsed" /\ WellFormed(table_md)) =>
        /\ raised = None
        /\ Len(todos) = Len(DataOf(table_md))
        /\ \A i \in DOMAIN DataOf(table_md) :
               /\ todos[i] = MappingRow(HeaderOf(table_md), DataOf(table_md)[i])
               /\ Distinct(HeaderOf(table_md)) =>
                      todos[i] = PlainRow(HeaderOf(table_md),
                                          DataOf(table_md)[i])

\* two data lines under a header of two different cells gave two rows
C1_Witness ==
    /\ pc = "parsed"
    /\ WellFormed(table_md)
    /\ Len(DataOf(table_md)) = 2
    /\ Len(HeaderOf(table_md)) = 2
    /\ Distinct(HeaderOf(table_md))
    /\ DataOf(table_md)[1] # DataOf(table_md)[2]
    /\ Len(todos) = 2

-----------------------------------------------------------------------------
(* C2 *)

\* the data lines as wide as the header, in their order
RECURSIVE Matching(_, _)
Matching(H, data) ==
    IF data = <<>> THEN <<>>
    ELSE IF Len(Cells(Head(data))) = Len(H)
         THEN <<Head(data)>> \o Matching(H, Tail(data))
         ELSE Matching(H, Tail(data))

Mismatched(md) ==
    {i \in DOMAIN DataOf(md) : Len(Cells(DataOf(md)[i])) # Len(HeaderOf(md))}

\* C2: of the N data lines of a table text exactly those as wide as the
\* header produce a row; the rows are N minus the mismatched lines, in the
\* order of their lines, and no error is raised for a dropped line.
C2_MismatchedDropped ==
    (pc = "parsed" /\ table_md # None) =>
        /\ raised = None
        /\ Len(TableOf(table_md)) < 3 => todos = <<>>
        /\ Len(TableOf(table_md)) >= 3 =>
              LET H == HeaderOf(table_md)
                  kept == Matching(H, DataOf(table_md))
              IN  /\ Len(todos) = Len(DataOf(table_md))
                                      - Cardinality(Mismatched(table_md))
                  /\ todos = [i \in DOMAIN kept |-> MappingRow(H, kept[i])]

\* of two data lines the first was too narrow or too wide and the second
\* gave the only row
C2_Witness ==
    /\ pc = "parsed"
    /\ table_md # None
    /\ raised = None
    /\ Len(TableOf(table_md)) = 4
    /\ Mismatched(table_md) = {1}
    /\ Len(todos) = 1

-----------------------------------------------------------------------------
(* C3 *)

\* C3: the rows parsed from any text, rendered without override and parsed
\* again, are the same rows: same number, order, keys, key order and cells.
C3_RoundTrip ==
    (pc = "reparsed" /\ table_md # None /\ status_override = None) =>
        /\ raised = None
        /\ reparsed = todos

\* a parsed row with an empty cell came back from the round trip
C3_Witness ==
    /\ pc = "reparsed"
    /\ table_md # None
    /\ status_override = None
    /\ raised = None
    /\ Len(todos) >= 1
    /\ \E i \in DOMAIN todos : \E j \in DOMAIN todos[i] :
           todos[i][j][2] = <<>>
    /\ reparsed = todos

-----------------------------------------------------------------------------
(* The rendered table, read back line by line and cell by cell *)

RenderedLines == splitlines(todo_progress_table)

\* the k-th data line of the rendered table
DataLine(k) == RenderedLines[k + 2]

Headers == keys(todos[1])

IsStatus(h) == lower(h) = <<"s", "t", "a", "t", "u", "s">>

\* a string that is a cell: trimmed, one line, no pipe
IsCell(v) ==
    /\ v # None
    /\ \A i \in DOMAIN v : v[i] \notin LineBreaks \cup {"|"}
    /\ strip(v, WhiteSpace) = v

Rendered == pc = "rendered" /\ Len(todos) >= 1

-----------------------------------------------------------------------------
(* C4 *)

-----------------------------------------------------------------------------
(* C5 *)

Contains(t, marker) ==
    \E i \in 1..(Len(t) - Len(marker) + 1) :
        SubSeq(t, i, i + Len(marker) - 1) = marker

\* C5: a text without the marker "## TODO List" extracts to the empty
\* string, the empty string parses to no rows, and no rows render, with or
\* without an override, as the placeholder "*(No TODOs found)*".
C5_NotFoundIsEmpty ==
    /\ (text # None /\ ~Contains(text, TODO_MARKER)) =>
           /\ raised = None
           /\ raw_todo_table = <<>>
           /\ pc \in {"parsed", "rendered", "reparsed"} => todos = <<>>
           /\ pc \in {"rendered", "reparsed"} =>
                  todo_progress_table = NO_TODOS
    /\ (pc = "parsed" /\ table_md = <<>>) => (raised = None /\ todos = <<>>)
    /\ (pc = "rendered" /\ Len(todos) = 0) =>
           (raised = None /\ todo_progress_table = NO_TODOS)

\* a text with a table line but no marker ended as the placeholder, the
\* override "done" supplied
C5_Witness ==
    /\ pc = "rendered"
    /\ text # None
    /\ ~Contains(text, TODO_MARKER)
    /\ Contains(text, <<"|">>)
    /\ raw_todo_table = <<>>
    /\ todos = <<>>
    /\ status_override = DONE
    /\ todo_progress_table = NO_TODOS

-----------------------------------------------------------------------------
(* C6 *)

\* position of the first occurrence of marker in t from i on, 0 when none
RECURSIVE FirstAt(_, _, _)
FirstAt(t, marker, i) ==
    IF i + Len(marker) - 1 > Len(t) THEN 0
    ELSE IF SubSeq(t, i, i + Len(marker) - 1) = marker THEN i
    ELSE FirstAt(t, marker, i + 1)

\* position of the next level-2 heading from i on: a line that begins with
\* "## "; one past the end of the text when none follows
RECURSIVE NextHeading(_, _)
NextHeading(t, i) ==
    IF i > Len(t) THEN i
    ELSE IF /\ i = 1 \/ t[i - 1] \in LineBreaks
            /\ startswith(SubSeq(t, i, Len(t)), NEXT_MARKER)
         THEN i
    ELSE NextHeading(t, i + 1)

\* the TODO section of a text that holds the marker: from right after the
\* first marker up to the next level-2 heading or the end of the text
TodoSection(t) ==
    LET b == FirstAt(t, TODO_MARKER, 1) + Len(TODO_MARKER)
    IN  SubSeq(t, b, NextHeading(t, b) - 1)

\* the lines of a text whose first non-blank character is a pipe
RECURSIVE PipeLines(_)
PipeLines(ls) ==
    IF ls = <<>> THEN <<>>
    ELSE IF startswith(lstrip(Head(ls), WhiteSpace), <<"|">>)
         THEN <<Head(ls)>> \o PipeLines(Tail(ls))
         ELSE PipeLines(Tail(ls))

\* C6: the section read starts right after the first marker "## TODO List"
\* and extends up to, and not beyond, the next level-2 heading or the end of
\* the text, so the block returned holds exactly the table lines of that
\* section (compared without the blanks around each line).
C6_SectionBoundaries ==
    (pc = "extracted" /\ Contains(text, TODO_MARKER)) =>
        /\ raised = None
        /\ strip_each(splitlines(raw_todo_table))
               = strip_each(PipeLines(splitlines(TodoSection(text))))

-----------------------------------------------------------------------------
(* C7 *)

\* the cells the k-th row holds under the columns of the first row
CellsUnderHeaders(k) ==
    [j \in DOMAIN Headers |-> dict_get(todos[k], Headers[j], <<>>)]

-----------------------------------------------------------------------------
(* C8 *)

Max(a, b) == IF a >= b THEN a ELSE b

\* C8: no call of the helpers raises, whatever the text, and rendering
\* parsed rows with any override or none returns a string; a malformed input
\* only makes the result empty or shorter: the block is no longer than the
\* text, the rows are no more than the non-blank lines after the first two.
C8_NeverRaises ==
    /\ raised = None
    /\ pc = "extracted" =>
           /\ raw_todo_table # None
           /\ Len(raw_todo_table) <= Len(text)
    /\ (pc = "parsed" /\ table_md # None) =>
           Len(todos) <= Max(Len(TableOf(table_md)) - 2, 0)
    /\ pc = "rendered" =>
           /\ todo_progress_table # None
           /\ Len(todo_progress_table) > 0

\* a text of blank lines and of lines of only pipes parsed to a row, and a
\* text of fewer than three lines parsed to none
C8_Witness ==
    /\ pc = "parsed"
    /\ raised = None
    /\ table_md # None
    /\ Len(splitlines(table_md)) = 2
    /\ \E i \in DOMAIN splitlines(table_md) : IsBlank(splitlines(table_md)[i])
    /\ \E i \in DOMAIN splitlines(table_md) : splitlines(table_md)[i] = <<"|">>
    /\ todos = <<>>

-----------------------------------------------------------------------------
(* C10 *)

\* the table the same rows render to without an override
PlainLines == splitlines(render_todo_table(todos, None).value)

NonStatusCellsAgree(k) ==
    /\ Len(Cells(RenderedLines[k])) = Len(Cells(PlainLines[k]))
    /\ \A j \in DOMAIN Headers :
           ~IsStatus(Headers[j]) =>
               /\ j <= Len(Cells(RenderedLines[k]))
               /\ Cells(RenderedLines[k])[j] = Cells(PlainLines[k])[j]

OverrideFrame ==
    /\ raised = None
    /\ todos_after = todos
    /\ Len(RenderedLines) = Len(PlainLines)
    /\ Len(todos) = 0 => RenderedLines = PlainLines
    /\ Len(todos) >= 1 =>
           /\ RenderedLines[1] = PlainLines[1]
           /\ RenderedLines[2] = PlainLines[2]
           /\ \A k \in 3..Len(RenderedLines) : NonStatusCellsAgree(k)

-----------------------------------------------------------------------------
(* C9 *)

Printed(kind) == \E i \in DOMAIN stdout : stdout[i][1] = kind

\* C9: a run makes at most two model calls, one after the other (the answer
\* call only after the planning call has returned), none twice; a failed
\* call ends the run with the exception it raised, so after a failed
\* planning call there is no answer call and nothing of phase 2 is printed.
C9_CallProtocol ==
    LET n == Len(events)
    IN  /\ n <= 4
        /\ \A i \in 1..n :
               /\ events[i][2] = IF i <= 2 THEN "planning" ELSE "answer"
               /\ i \in {1, 3} => events[i][1] = "invoke"
               /\ i \in {2, 4} => events[i][1] \in {"return", "raise"}
               /\ events[i][1] = "raise" =>
                      /\ i = n
                      /\ pc = "failed"
                      /\ raised = events[i][3]
        /\ raised # None => (n > 0 /\ events[n][1] = "raise")
        /\ pc = "failed" =>
               /\ raised # None
               /\ ~Printed("PHASE 2 banner")
               /\ ~Printed("todo_progress_table")
               /\ ~Printed("final_answer")
        /\ (n >= 2 /\ events[2][1] = "raise") => (n = 2 /\ stdout = <<>>)
        /\ pc = "done" => n = 4

\* the planning call failed: one call made, nothing printed
C9_Witness ==
    /\ pc = "failed"
    /\ Len(events) = 2
    /\ events[2][1] = "raise"
    /\ raised = <<"TimeoutError">>
    /\ stdout = <<>>

-----------------------------------------------------------------------------
(* C11 *)

\* position in stdout of the item of that kind, 0 when it was not printed
RECURSIVE PrintedAt(_, _)
PrintedAt(kind, i) ==
    IF i > Len(stdout) THEN 0
    ELSE IF stdout[i][1] = kind THEN i
    ELSE PrintedAt(kind, i + 1)

EndsWith(t, tail) ==
    /\ Len(t) >= Len(tail)
    /\ SubSeq(t, Len(t) - Len(tail) + 1, Len(t)) = tail

\* every status cell of the progress table reads "done", or the table is the
\* placeholder when no row was parsed
ProgressAllDone ==
    /\ Len(todos) = 0 => todo_progress_table = NO_TODOS
    /\ Len(todos) >= 1 =>
           /\ Len(RenderedLines) = Len(todos) + 2
           /\ \A k \in DOMAIN todos : \A j \in DOMAIN Headers :
                  IsStatus(Headers[j]) => Cells(DataLine(k))[j] = DONE

\* C11: the user message of the answer call holds the text the planning call
\* returned, verbatim; the progress table is computed from that same text by
\* extract, parse and render with the override "done"; and the progress
\* table is printed before the final answer, every status cell in it reading
\* "done", or as the placeholder when no row was parsed.
C11_DataFlow ==
    /\ raised = None =>
           /\ Len(events) >= 2 => reasoning_plan = events[2][3]
           /\ Len(events) >= 3 =>
                  /\ Contains(events[3][3], reasoning_plan)
                  /\ EndsWith(events[3][3], reasoning_plan \o NL)
    /\ pc \in {"parse", "render", "answer", "answer_call", "print_answer",
                "done"} => text = reasoning_plan
    /\ pc \in {"render", "answer", "answer_call", "print_answer", "done"} =>
           table_md = raw_todo_table
    /\ pc \in {"answer", "answer_call", "print_answer", "done"} =>
           /\ status_override = DONE
           /\ ProgressAllDone
    /\ pc = "done" =>
           /\ PrintedAt("todo_progress_table", 1) > 0
           /\ PrintedAt("todo_progress_table", 1) < PrintedAt("final_answer", 1)
           /\ stdout[PrintedAt("todo_progress_table", 1)][2]
                  = todo_progress_table
           /\ stdout[PrintedAt("final_answer", 1)][2] = final_answer
           /\ final_answer = events[4][3]

\* a plan with two "todo" rows under the marker ended with a printed table
\* of two "done" rows, the plan itself in the answer prompt
C11_Witness ==
    /\ pc = "done"
    /\ Len(todos) = 2
    /\ \E j \in DOMAIN Headers :
           /\ IsStatus(Headers[j])
           /\ todos[1][j][2] = <<"t", "o", "d", "o">>
           /\ Cells(DataLine(1))[j] = DONE
    /\ Contains(events[3][3], reasoning_plan)
    /\ ~Contains(events[3][3], todo_progress_table)
    /\ PrintedAt("todo_progress_table", 1) < PrintedAt("final_answer", 1)

-----------------------------------------------------------------------------
(* C12 *)

\* C12: with the blank lines of a table text removed, line 1 is the header
\* and line 2 is discarded whatever it holds, so every row comes from a line
\* at position three or later and carries the header's cells as keys; a text
\* of fewer than three non-blank lines parses to no rows and does not fail.
C12_PositionalContract ==
    (pc = "parsed" /\ table_md # None) =>
        /\ raised = None
        /\ Len(TableOf(table_md)) < 3 => todos = <<>>
        /\ Len(TableOf(table_md)) >= 3 =>
              LET T == TableOf(table_md)
                  H == Cells(T[1])
              IN  /\ Len(todos) <= Len(T) - 2
                  /\ \A i \in DOMAIN todos :
                         /\ [n \in DOMAIN todos[i] |-> todos[i][n][1]]
                                = FirstOccurrences(H, 1)
                         /\ \E k \in 3..Len(T) :
                                /\ k - 2 >= i
                                /\ Len(Cells(T[k])) = Len(H)
                                /\ todos[i] = MappingRow(H, T[k])

\* a text of header, blank line and twice the same data line: the first of
\* the two stands on line 2 and is lost, the second makes the only row
C12_Witness ==
    /\ pc = "parsed"
    /\ table_md # None
    /\ Len(splitlines(table_md)) = 4
    /\ Len(TableOf(table_md)) = 3
    /\ TableOf(table_md)[2] = TableOf(table_md)[3]
    /\ Len(Cells(TableOf(table_md)[2])) = Len(HeaderOf(table_md))
    /\ Len(todos) = 1

-----------------------------------------------------------------------------
(* C13 *)

\* the section captured from a text that holds the marker: from right after
\* the first marker up to the next "## " or the end of the text
CapturedSection(t) ==
    LET b == FirstAt(t, TODO_MARKER, 1) + Len(TODO_MARKER)
        e == FirstAt(t, NEXT_MARKER, b)
    IN  SubSeq(t, b, IF e = 0 THEN Len(t) ELSE e - 1)

\* C13: the block returned consists of exactly the lines of the captured
\* section whose first non-blank character is a pipe, in their order and
\* joined by line feeds (the blanks around the section itself dropped); the
\* captured section lies inside the TODO section, so no line from before the
\* marker or from after the next heading appears; and the kept lines are
\* returned whether or not they form a table.
C13_TableLineIsolation ==
    (pc = "extracted" /\ text # None /\ Contains(text, TODO_MARKER)) =>
        /\ raised = None
        /\ LET S == CapturedSection(text)
                kept == PipeLines(splitlines(S))
                block == splitlines(raw_todo_table)
            IN  /\ Len(block) = Len(kept)
                /\ strip_each(block) = strip_each(kept)
                /\ \A i \in 2..(Len(block) - 1) : block[i] = kept[i]
                /\ raw_todo_table = join_strs(NL, block)
                /\ Len(S) <= Len(TodoSection(text))
                /\ S = SubSeq(TodoSection(text), 1, Len(S))

\* a text of a table line, the marker, a prose line and a table line: the
\* block is the one table line under the marker, no table by itself
C13_Witness ==
    /\ pc = "extracted"
    /\ text # None
    /\ FirstAt(text, TODO_MARKER, 1) > 1
    /\ Len(splitlines(text)) = 4
    /\ Len(PipeLines(splitlines(text))) = 2
    /\ Len(NonBlankLines(splitlines(CapturedSection(text)))) = 2
    /\ Len(splitlines(raw_todo_table)) = 1
    /\ ~WellFormed(raw_todo_table)

-----------------------------------------------------------------------------
(* C14 *)

\* what the tool is to report for a metric type and a list of values: the
\* mean v (v * len = sum), 0, the percentage change v from the first to the
\* last value (v * first = (last - first) * 100), or None
Reported(mt, vs, v) ==
    IF mt = AVERAGE /\ vs # <<>>
    THEN /\ v # None
         /\ v[1] * Len(vs) = sum(vs) * v[2]
    ELSE IF mt = AVERAGE THEN v = <<0, 1>>
    ELSE IF mt = GROWTH /\ Len(vs) >= 2
    THEN /\ v # None
         /\ v[1] * vs[1] = (vs[Len(vs)] - vs[1]) * 100 * v[2]
    ELSE v = None

\* C14: for every metric type and every list of numbers calculate_metrics
\* raises nothing and returns a mapping with the single key "result": the
\* mean for "average" of a non-empty list, 0 for "average" of an empty list,
\* the percentage change from the first to the last value for "growth" of
\* at least two values, None otherwise.
C14_EveryOutcomeAValue ==
    pc = "calculated" =>
        /\ raised = None
        /\ Len(result) = 1
        /\ result[1][1] = RESULT
        /\ Reported(metric_type, values, result[1][2])

\* the calls in which the first value of a "growth" list is not 0 do as C14
\* says; the others raise ZeroDivisionError
C14_RaisesOnZeroBase ==
    pc = "calculated" =>
        IF metric_type = GROWTH /\ Len(values) >= 2 /\ values[1] = 0
        THEN raised = <<"ZeroDivisionError">>
        ELSE /\ raised = None
             /\ Len(result) = 1
             /\ result[1][1] = RESULT
             /\ Reported(metric_type, values, result[1][2])

====
